---- MODULE Spec2Model ----
(***************************************************************************)
(* Model of cmn::bits::FlagSet< Enum > (include/common/bits.hpp) together  *)
(* with the Result/Status values (include/common/result.hpp) its fallible  *)
(* operations return.                                                      *)
(*                                                                         *)
(* One FlagSet instance (m_bits) is driven through its constructors,       *)
(* single-flag operations, bulk operations, queries, operators and its     *)
(* iterator; a second instance (other) is the right operand of the binary  *)
(* operators.  The enumeration the template is instantiated with is chosen *)
(* in Init among the bitmask enums of tests/test_bits.cpp.                 *)
(*                                                                         *)
(* The second half models cmn::result: Error and its text form, which is   *)
(* formatted into a thread_local buffer by threads that run concurrently,  *)
(* and Result/Status with ok, err, unwrap and verify.                      *)
(*                                                                         *)
(* cmn::ss::snprintf (include/common/snprintf.hpp) is modelled by the      *)
(* stores it makes into a buffer of a given size (ss), and a FlagSet of a  *)
(* 32-bit and of a 64-bit enum (wide) by the bit patterns its forEach and  *)
(* its iterator produce with the int expression 1 << i.                    *)
(***************************************************************************)
EXTENDS Integers, Sequences, FiniteSets, TLC

VARIABLES
    enum,      \* the Enum template argument of this instantiation
    m_bits,    \* FlagSet::m_bits of the instance under test (std::bitset< NUM_BITS >)
    other,     \* m_bits of a second FlagSet of the same type (operand `other`)
    res,       \* how the last call ended: returned value, Error, or exception
    it,        \* FlagSet::Iterator::m_index of the live iterator, -1 when there is none
    errs,      \* per thread: the Error objects of the running scope (e1, e2)
    s_buffer,  \* Error::toStr()::s_buffer, one array< char, 256 > per buffer instance
    pc,        \* per thread: where the thread is inside Error::toStr()
    written,   \* per thread: the local `written` of the running toStr() call
    strs,      \* per thread: the pointers the toStr() calls of the scope returned
    saved,     \* per thread: std::string copies made of the returned texts
    result,    \* a Result< T > / Status object handed to unwrap / verify
    process,   \* "running", or "aborted" once std::abort() was called
    ss,        \* the running or last call of cmn::ss::snprintf and the memory it wrote
    wide       \* a FlagSet of a wide enum: its m_bits, its iterator, the flags produced

\* the state of cmn::result, which the FlagSet operations leave alone
result_vars == << errs, s_buffer, pc, written, strs, saved, result, process >>

\* the state of the FlagSet under test, which cmn::result leaves alone
flagset_vars == << enum, m_bits, other, it >>

\* the state of cmn::ss::snprintf and of the FlagSet of the 64-bit enum

vars == << enum, m_bits, other, res, it,
           errs, s_buffer, pc, written, strs, saved, result, process, ss, wide >>

----------------------------------------------------------------------------
(* Bounds *)

\* candidate enum values / raw integers handed to the operations are 0..MaxRaw
MaxRaw == 33

Raw == 0 .. MaxRaw

\* the highest bit position of a candidate of SmallRaw
MaxBit == 5

\* zero, every single bit up to MaxBit, and all of them together
SmallRaw == { 0 } \cup { 2 ^ i : i \in 0 .. MaxBit } \cup { 2 ^ (MaxBit + 1) - 1 }

----------------------------------------------------------------------------
(* Built-in integer operators of C++ on two's-complement integers.  \div   *)
(* and % round towards minus infinity, so -1 is the all-ones pattern.      *)

RECURSIVE BitAnd(_, _)
BitAnd(x, y) ==
    IF x = 0 \/ y = 0 THEN 0
    ELSE IF x = -1 THEN y
    ELSE IF y = -1 THEN x
    ELSE (x % 2) * (y % 2) + 2 * BitAnd(x \div 2, y \div 2)

RECURSIVE BitOr(_, _)
BitOr(x, y) ==
    IF x = 0 THEN y
    ELSE IF y = 0 THEN x
    ELSE IF x = -1 \/ y = -1 THEN -1
    ELSE (IF x % 2 = 1 \/ y % 2 = 1 THEN 1 ELSE 0) + 2 * BitOr(x \div 2, y \div 2)

RECURSIVE BitXor(_, _)
BitXor(x, y) ==
    IF x = 0 THEN y
    ELSE IF y = 0 THEN x
    ELSE (IF x % 2 = y % 2 THEN 0 ELSE 1) + 2 * BitXor(x \div 2, y \div 2)

\* ~x on a (promoted) two's-complement integer
BitNot(x) == -x - 1

----------------------------------------------------------------------------
(* The enumerations of tests/test_bits.cpp *)

Enums == { "Permissions", "NetworkFlags" }

\* The further bitmask enums of the repository; EmptyFlags, an enum : u8
\* whose only enumerators are NONE = 0 and ALL = NONE; Flags32 and Flags64,
\* enums : u32 and : u64 with flags at bit 31 and above.

\* the width in bits of std::underlying_type_t< Enum >
UnderlyingBits(e) ==
    CASE e = "Permissions"  -> 32    \* u32
      [] e = "NetworkFlags" -> 16    \* u16
      [] e = "FileFlags"    -> 8     \* u8
      [] e = "LargeFlags"   -> 32    \* u32
      [] e = "TestBitmask"  -> 32    \* unsigned
      [] e = "EmptyFlags"   -> 8     \* u8
      [] e = "Flags32"      -> 32    \* u32
      [] e = "Flags64"      -> 64    \* u64

\* static_cast< Underlying >( Enum::ALL )
ALL(e) ==
    CASE e = "Permissions"  -> 7     \* READ | WRITE | EXECUTE
      [] e = "NetworkFlags" -> 27    \* TCP | UDP | IPV6 | ENCRYPTED
      [] e = "FileFlags"    -> 15    \* HIDDEN | READONLY | SYSTEM | ARCHIVE
      [] e = "LargeFlags"   -> 255   \* FLAG0 | ... | FLAG7
      [] e = "TestBitmask"  -> 3     \* FLAG1 | FLAG2
      [] e = "EmptyFlags"   -> 0     \* NONE

VALID_MASK == ALL(enum)

RECURSIVE NumBitsLoop(_, _)
NumBitsLoop(all_bits, count) ==
    IF all_bits # 0 THEN NumBitsLoop(all_bits \div 2, count + 1) ELSE count

\* variant: the vector is as wide as the underlying type
NUM_BITS_UnderlyingWidth == UnderlyingBits(enum)

NUM_BITS == NumBitsLoop(VALID_MASK, 0)

RECURSIVE bitPositionLoop(_, _)
bitPositionLoop(value, pos) ==
    IF BitAnd(value, 1) = 0 /\ value # 0
    THEN bitPositionLoop(value \div 2, pos + 1)
    ELSE pos

\* variant: no sentinel, the value 0 runs through the loop
bitPosition_NoSentinel(value) == bitPositionLoop(value, 0)

\* variant: positions counted from one
bitPosition_FromOne(value) ==
    IF value = 0 THEN NUM_BITS ELSE bitPositionLoop(value, 1)

bitPosition(value) ==
    IF value = 0 THEN NUM_BITS ELSE bitPositionLoop(value, 0)

----------------------------------------------------------------------------
(* std::bitset< NUM_BITS >: a vector of NUM_BITS booleans, bit 0 first *)

Positions == 0 .. (NUM_BITS - 1)

\* std::bitset< NUM_BITS >( val ): the low NUM_BITS bits of val, the rest dropped
bitset(val) == [ i \in Positions |-> (val \div (2 ^ i)) % 2 = 1 ]

RECURSIVE to_ullong_from(_, _)
to_ullong_from(b, i) ==
    IF i >= NUM_BITS THEN 0
    ELSE (IF b[i] THEN 2 ^ i ELSE 0) + to_ullong_from(b, i + 1)

\* variant: bit 0 of the vector is taken as the most significant bit
to_ullong_MsbFirst(b) ==
    to_ullong_from([ i \in Positions |-> b[NUM_BITS - 1 - i] ], 0)

to_ullong(b) == to_ullong_from(b, 0)

\* test / set / reset / flip ( pos ) throw std::out_of_range unless pos < size()
InRange(pos) == pos < NUM_BITS

bitset_set(b, pos)   == [ b EXCEPT ![pos] = TRUE ]
bitset_reset(b, pos) == [ b EXCEPT ![pos] = FALSE ]
bitset_flip(b, pos)  == [ b EXCEPT ![pos] = ~ b[pos] ]

bitset_or(a, b)  == [ i \in Positions |-> a[i] \/ b[i] ]
bitset_and(a, b) == [ i \in Positions |-> a[i] /\ b[i] ]
bitset_xor(a, b) == [ i \in Positions |-> a[i] # b[i] ]

bitset_count(b) == Cardinality({ i \in Positions : b[i] })
bitset_any(b)   == \E i \in Positions : b[i]
bitset_none(b)  == \A i \in Positions : ~ b[i]

----------------------------------------------------------------------------
(* Result values (result.hpp) and the way a call can end *)

NoArg == -1

\* the payload of a returned value, one field per C++ type that is returned
Void      == [ bool |-> FALSE, int |-> 0, flags |-> << >>, list |-> << >> ]
Boolean(x) == [ Void EXCEPT !.bool = x ]     \* bool
Num(n)     == [ Void EXCEPT !.int = n ]      \* Underlying, Enum, usize
Flags(b)   == [ Void EXCEPT !.flags = b ]    \* FlagSet
List(s)    == [ Void EXCEPT !.list = s ]     \* the arguments of successive callback calls

\* ok( value ) / ok(): the call returned a success holding value
ok(op, arg, value) ==
    [ op |-> op, arg |-> arg, outcome |-> "value", kind |-> "none",
      message |-> "", value |-> value ]

\* variant: the kind argument is dropped and the default kind is used
err_DefaultKind(op, arg, msg, typ) ==
    [ op |-> op, arg |-> arg, outcome |-> "error", kind |-> "GENERIC_ERROR",
      message |-> msg, value |-> Void ]

\* err( msg, typ ): the call returned a failed Result/Status holding Error( msg, typ )
err(op, arg, msg, typ) ==
    [ op |-> op, arg |-> arg, outcome |-> "error", kind |-> typ,
      message |-> msg, value |-> Void ]

\* the call left through an exception thrown by std::bitset
thrown(op, arg, what) ==
    [ op |-> op, arg |-> arg, outcome |-> "throw", kind |-> what,
      message |-> "", value |-> Void ]

----------------------------------------------------------------------------
(* FlagSet: constructors, conversions, validation *)

\* FlagSet(): m_bits{}
FlagSetDefault == [ i \in Positions |-> FALSE ]

\* variant: the constructor stores num without masking it
FlagSet_Unmasked(num) == bitset(num)

\* explicit FlagSet( Enum num )
FlagSet(num) == bitset(BitAnd(num, VALID_MASK))

\* variant: the raw value is stored without masking it
fromUnderlying_Unmasked(raw) == bitset(raw)

fromUnderlying(raw) == FlagSet(BitAnd(raw, VALID_MASK))

toUnderlying(b) == to_ullong(b)

toEnum(b) == toUnderlying(b)

\* variant: a range check instead of a mask check
isValid_Range(value) == value <= VALID_MASK

\* static isValid( Enum value )
isValid(value) == BitAnd(value, BitNot(VALID_MASK)) = 0

\* isValid() const
isValidInstance(b) == BitAnd(toUnderlying(b), BitNot(VALID_MASK)) = 0

\* hasAny() / hasNone() / count() / explicit operator bool
hasAny(b) == bitset_any(b)

\* variant: hasNone() answers any()
hasNone_AsAny(b) == bitset_any(b)

hasNone(b) == bitset_none(b)

count(b) == bitset_count(b)

operator_bool(b) == hasAny(b)

\* operator|, operator&, operator^, operator~ : a new FlagSet
operator_or(a, b) == FlagSet(BitOr(toUnderlying(a), toUnderlying(b)))

\* variant: operator& combines the operands with ^
operator_and_AsXor(a, b) == FlagSet(BitXor(toUnderlying(a), toUnderlying(b)))

operator_and(a, b) == FlagSet(BitAnd(toUnderlying(a), toUnderlying(b)))

\* variant: operator^ combines the operands with |
operator_xor_AsOr(a, b) == FlagSet(BitOr(toUnderlying(a), toUnderlying(b)))

operator_xor(a, b) == FlagSet(BitXor(toUnderlying(a), toUnderlying(b)))

operator_not(a) == FlagSet(BitAnd(BitNot(toUnderlying(a)), VALID_MASK))

----------------------------------------------------------------------------
(* Iteration helpers *)

\* static_cast< Enum >( 1 << i )
FlagAt(i) == 2 ^ i

RECURSIVE forEachFrom(_, _)
forEachFrom(b, i) ==
    IF i < NUM_BITS
    THEN (IF b[i] THEN << FlagAt(i) >> ELSE << >>) \o forEachFrom(b, i + 1)
    ELSE << >>

\* variant: the traversal starts at bit 1
forEach_FromOne(b) == forEachFrom(b, 1)

\* the flags func is called with, in call order
forEach(b) == forEachFrom(b, 0)

\* variant: advance() does not skip the bits that are not set
advance_NoSkip(b, m_index) == m_index

RECURSIVE advance(_, _)
advance(b, m_index) ==
    IF m_index < NUM_BITS /\ ~ b[m_index]
    THEN advance(b, m_index + 1)
    ELSE m_index

\* for( auto flag : flags ): the values of *it for it = begin(); it != end(); ++it
RECURSIVE iterateFrom(_, _)
iterateFrom(b, m_index) ==
    IF m_index # NUM_BITS
    THEN << FlagAt(m_index) >> \o iterateFrom(b, advance(b, m_index + 1))
    ELSE << >>

iterate(b) == iterateFrom(b, advance(b, 0))

NoIterator == -1

----------------------------------------------------------------------------
(* cmn::result::Error (result.hpp).  Texts are sequences of characters.    *)

ErrorType ==
    { "ARITHMETIC_ERROR",
      "FLOATING_POINT_ERROR",
      "OVERFLOW_ERROR",
      "ZERO_DIVISION_ERROR",
      "ASSERTION_ERROR",
      "ATTRIBUTE_ERROR",
      "INDEX_ERROR",
      "KEY_ERROR",
      "OS_ERROR",
      "TIMEOUT_ERROR",
      "RUNTIME_ERROR",
      "NOT_IMPLEMENTED_ERROR",
      "SYNTAX_ERROR",
      "SYSTEM_ERROR",
      "TYPE_ERROR",
      "VALUE_ERROR",
      "GENERIC_ERROR" }

\* Error( msg, typ )
Error(msg, typ) == [ message |-> msg, type |-> typ ]

\* Error( msg )
ErrorMessageOnly(msg) == Error(msg, "GENERIC_ERROR")

\* Error()
ErrorDefault == Error(<< >>, "GENERIC_ERROR")

\* variant: SYSTEM_ERROR returns the text of SYNTAX_ERROR
toStr_Duplicate(typ) ==
    CASE typ = "ARITHMETIC_ERROR" ->
             << "A", "r", "i", "t", "h", "m", "e", "t", "i", "c", "E", "r", "r", "o", "r" >>
      [] typ = "FLOATING_POINT_ERROR" ->
             << "F", "l", "o", "a", "t", "i", "n", "g", "P", "o", "i", "n", "t", "E", "r", "r", "o", "r" >>
      [] typ = "OVERFLOW_ERROR" ->
             << "O", "v", "e", "r", "f", "l", "o", "w", "E", "r", "r", "o", "r" >>
      [] typ = "ZERO_DIVISION_ERROR" ->
             << "Z", "e", "r", "o", "D", "i", "v", "i", "s", "i", "o", "n", "E", "r", "r", "o", "r" >>
      [] typ = "ASSERTION_ERROR" ->
             << "A", "s", "s", "e", "r", "t", "i", "o", "n", "E", "r", "r", "o", "r" >>
      [] typ = "ATTRIBUTE_ERROR" ->
             << "A", "t", "t", "r", "i", "b", "u", "t", "e", "E", "r", "r", "o", "r" >>
      [] typ = "INDEX_ERROR" ->
             << "I", "n", "d", "e", "x", "E", "r", "r", "o", "r" >>
      [] typ = "KEY_ERROR" ->
             << "K", "e", "y", "E", "r", "r", "o", "r" >>
      [] typ = "OS_ERROR" ->
             << "O", "S", "E", "r", "r", "o", "r" >>
      [] typ = "TIMEOUT_ERROR" ->
             << "T", "i", "m", "e", "o", "u", "t", "E", "r", "r", "o", "r" >>
      [] typ = "RUNTIME_ERROR" ->
             << "R", "u", "n", "t", "i", "m", "e", "E", "r", "r", "o", "r" >>
      [] typ = "NOT_IMPLEMENTED_ERROR" ->
             << "N", "o", "t", "I", "m", "p", "l", "e", "m", "e", "n", "t", "e", "d", "E", "r", "r", "o", "r" >>
      [] typ = "SYNTAX_ERROR" ->
             << "S", "y", "n", "t", "a", "x", "E", "r", "r", "o", "r" >>
      [] typ = "SYSTEM_ERROR" ->
             << "S", "y", "n", "t", "a", "x", "E", "r", "r", "o", "r" >>
      [] typ = "TYPE_ERROR" ->
             << "T", "y", "p", "e", "E", "r", "r", "o", "r" >>
      [] typ = "VALUE_ERROR" ->
             << "V", "a", "l", "u", "e", "E", "r", "r", "o", "r" >>
      [] typ = "GENERIC_ERROR" ->
             << "G", "e", "n", "e", "r", "i", "c", "E", "r", "r", "o", "r" >>

\* static Error::toStr( ErrorType typ )
toStr(typ) ==
    CASE typ = "ARITHMETIC_ERROR" ->
             << "A", "r", "i", "t", "h", "m", "e", "t", "i", "c", "E", "r", "r", "o", "r" >>
      [] typ = "FLOATING_POINT_ERROR" ->
             << "F", "l", "o", "a", "t", "i", "n", "g", "P", "o", "i", "n", "t", "E", "r", "r", "o", "r" >>
      [] typ = "OVERFLOW_ERROR" ->
             << "O", "v", "e", "r", "f", "l", "o", "w", "E", "r", "r", "o", "r" >>
      [] typ = "ZERO_DIVISION_ERROR" ->
             << "Z", "e", "r", "o", "D", "i", "v", "i", "s", "i", "o", "n", "E", "r", "r", "o", "r" >>
      [] typ = "ASSERTION_ERROR" ->
             << "A", "s", "s", "e", "r", "t", "i", "o", "n", "E", "r", "r", "o", "r" >>
      [] typ = "ATTRIBUTE_ERROR" ->
             << "A", "t", "t", "r", "i", "b", "u", "t", "e", "E", "r", "r", "o", "r" >>
      [] typ = "INDEX_ERROR" ->
             << "I", "n", "d", "e", "x", "E", "r", "r", "o", "r" >>
      [] typ = "KEY_ERROR" ->
             << "K", "e", "y", "E", "r", "r", "o", "r" >>
      [] typ = "OS_ERROR" ->
             << "O", "S", "E", "r", "r", "o", "r" >>
      [] typ = "TIMEOUT_ERROR" ->
             << "T", "i", "m", "e", "o", "u", "t", "E", "r", "r", "o", "r" >>
      [] typ = "RUNTIME_ERROR" ->
             << "R", "u", "n", "t", "i", "m", "e", "E", "r", "r", "o", "r" >>
      [] typ = "NOT_IMPLEMENTED_ERROR" ->
             << "N", "o", "t", "I", "m", "p", "l", "e", "m", "e", "n", "t", "e", "d", "E", "r", "r", "o", "r" >>
      [] typ = "SYNTAX_ERROR" ->
             << "S", "y", "n", "t", "a", "x", "E", "r", "r", "o", "r" >>
      [] typ = "SYSTEM_ERROR" ->
             << "S", "y", "s", "t", "e", "m", "E", "r", "r", "o", "r" >>
      [] typ = "TYPE_ERROR" ->
             << "T", "y", "p", "e", "E", "r", "r", "o", "r" >>
      [] typ = "VALUE_ERROR" ->
             << "V", "a", "l", "u", "e", "E", "r", "r", "o", "r" >>
      [] typ = "GENERIC_ERROR" ->
             << "G", "e", "n", "e", "r", "i", "c", "E", "r", "r", "o", "r" >>

\* std::array< char, 256 >
BufferSize == 256

Nul == "NUL"

\* s_buffer{} and s_buffer.fill( '\0' )
ZeroBuffer == [ i \in 0 .. (BufferSize - 1) |-> Nul ]

\* strlen: the index of the first terminator of buf
strlen(buf) ==
    CHOOSE n \in 0 .. BufferSize :
        /\ n = BufferSize \/ buf[n] = Nul
        /\ \A j \in 0 .. (n - 1) : buf[j] # Nul

\* the C string a char pointer to the start of buf designates
CStr(buf) == [ k \in 1 .. strlen(buf) |-> buf[k - 1] ]

\* the index of the first conversion specification of fmt, or Len(fmt) + 1
NextConversion(fmt) ==
    CHOOSE n \in 1 .. (Len(fmt) + 1) :
        /\ n = Len(fmt) + 1 \/ (fmt[n] = "%" /\ n < Len(fmt))
        /\ \A j \in 1 .. (n - 1) : ~ (fmt[j] = "%" /\ j < Len(fmt))

\* the output of a printf-style format: ordinary characters are copied, %s
\* takes the next argument, %% is a percent sign, any other conversion takes
\* an argument and prints "?"
RECURSIVE Format(_, _)
Format(fmt, args) ==
    LET n == NextConversion(fmt)
    IN  IF n > Len(fmt) THEN fmt
        ELSE LET rest == SubSeq(fmt, n + 2, Len(fmt))
             IN  SubSeq(fmt, 1, n - 1) \o
                 (IF fmt[n + 1] = "%"
                  THEN << "%" >> \o Format(rest, args)
                  ELSE (IF fmt[n + 1] = "s" /\ args # << >> THEN Head(args) ELSE << "?" >>)
                           \o Format(rest, IF args # << >> THEN Tail(args) ELSE args))

\* ::snprintf( buf, size, fmt, args... ): at most size - 1 characters and a
\* terminator are stored; the length of the whole output is returned
c_snprintf(buf, size, fmt, args) ==
    LET out == Format(fmt, args)
        n   == IF Len(out) < size - 1 THEN Len(out) ELSE size - 1
    IN  [ buffer  |-> [ i \in DOMAIN buf |->
                          IF i < n THEN out[i + 1]
                          ELSE IF i = n THEN Nul
                          ELSE buf[i] ],
          written |-> Len(out) ]

\* variant: only the message is formatted, without the name of the kind
toStr_snprintf_MessageOnly(buf, e) ==
    c_snprintf(buf, BufferSize, << "%", "s" >>, << e.message >>)

\* variant: the message is spliced into the format string
toStr_snprintf_MessageAsFormat(buf, e) ==
    c_snprintf(buf, BufferSize, << "%", "s", ":", " " >> \o e.message, << toStr(e.type) >>)

\* ::snprintf( s_buffer.data(), s_buffer.size(), "%s: %s", toStr( type ), message )
toStr_snprintf(buf, e) ==
    c_snprintf(buf, BufferSize, << "%", "s", ":", " ", "%", "s" >>,
               << toStr(e.type), e.message >>)

----------------------------------------------------------------------------
(* Threads that format errors.  Each thread runs scopes like the one of    *)
(* tests/test_result.cpp "Buffer reuse within same thread": it constructs  *)
(* an Error, calls toStr(), may copy the text out, and does so once more.  *)

Threads == { 1, 2 }

MainThread == 1

\* the toStr() calls of one scope: str1 = e1.toStr(); str2 = e2.toStr()
CallsPerScope == 2

\* a str that is null, or that points to the start of buffer instance b
NullStr == [ null |-> TRUE, buffer |-> 0 ]
StrTo(b) == [ null |-> FALSE, buffer |-> b ]

\* variant: s_buffer is static, one instance for all threads
BufferOf_Static(t) == MainThread

\* thread_local: the instance of s_buffer the thread t uses
BufferOf(t) == t

NotCopied == [ copied |-> FALSE, text |-> << >> ]

\* Error e( msg, typ ) as the next Error of the scope
NewError(t, msg, typ) ==
    /\ process = "running"
    /\ pc[t] = "idle"
    /\ Len(errs[t]) < CallsPerScope
    /\ Len(strs[t]) = Len(errs[t])
    /\ errs' = [ errs EXCEPT ![t] = Append(@, Error(msg, typ)) ]
    /\ UNCHANGED << s_buffer, pc, written, strs, saved, result, process >>
    /\ UNCHANGED << flagset_vars, res, ss, wide >>

\* toStr(), line 88: s_buffer.fill( '\0' )
ToStrFill(t) ==
    /\ process = "running"
    /\ pc[t] = "idle"
    /\ Len(strs[t]) < Len(errs[t])
    /\ s_buffer' = [ s_buffer EXCEPT ![BufferOf(t)] = ZeroBuffer ]
    /\ pc' = [ pc EXCEPT ![t] = "filled" ]
    /\ UNCHANGED << errs, written, strs, saved, result, process >>
    /\ UNCHANGED << flagset_vars, res, ss, wide >>

\* variant: every call of a scope formats the first Error of the scope
ToStrFormat_FirstError(t) ==
    /\ pc[t] = "filled"
    /\ LET call == toStr_snprintf(s_buffer[BufferOf(t)], errs[t][1])
       IN  /\ s_buffer' = [ s_buffer EXCEPT ![BufferOf(t)] = call.buffer ]
           /\ written' = [ written EXCEPT ![t] = call.written ]
    /\ pc' = [ pc EXCEPT ![t] = "formatted" ]
    /\ UNCHANGED << errs, strs, saved, result, process >>
    /\ UNCHANGED << flagset_vars, res, ss, wide >>

\* toStr(), line 89: written = ::snprintf( ... )
ToStrFormat(t) ==
    /\ pc[t] = "filled"
    /\ LET call == toStr_snprintf(s_buffer[BufferOf(t)], errs[t][Len(errs[t])])
       IN  /\ s_buffer' = [ s_buffer EXCEPT ![BufferOf(t)] = call.buffer ]
           /\ written' = [ written EXCEPT ![t] = call.written ]
    /\ pc' = [ pc EXCEPT ![t] = "formatted" ]
    /\ UNCHANGED << errs, strs, saved, result, process >>
    /\ UNCHANGED << flagset_vars, res, ss, wide >>

\* toStr(), lines 91-95: return {} or s_buffer.data()
ToStrReturn(t) ==
    /\ pc[t] = "formatted"
    /\ strs' = [ strs EXCEPT ![t] =
                   Append(@, IF written[t] <= 0 THEN NullStr ELSE StrTo(BufferOf(t))) ]
    /\ saved' = [ saved EXCEPT ![t] = Append(@, NotCopied) ]
    /\ pc' = [ pc EXCEPT ![t] = "idle" ]
    /\ UNCHANGED << errs, s_buffer, written, result, process >>
    /\ UNCHANGED << flagset_vars, res, ss, wide >>

\* std::string saved( str ) for the str the last call returned
CopyOut(t) ==
    /\ process = "running"
    /\ pc[t] = "idle"
    /\ strs[t] # << >>
    /\ ~ strs[t][Len(strs[t])].null
    /\ ~ saved[t][Len(strs[t])].copied
    /\ saved' = [ saved EXCEPT ![t][Len(strs[t])] =
                    [ copied |-> TRUE,
                      text |-> CStr(s_buffer[strs[t][Len(strs[t])].buffer]) ] ]
    /\ UNCHANGED << errs, s_buffer, pc, written, strs, result, process >>
    /\ UNCHANGED << flagset_vars, res, ss, wide >>

\* the scope ends: its Errors, pointers and copies are gone, s_buffer stays
EndScope(t) ==
    /\ process = "running"
    /\ pc[t] = "idle"
    /\ errs[t] # << >>
    /\ Len(strs[t]) = Len(errs[t])
    /\ errs' = [ errs EXCEPT ![t] = << >> ]
    /\ strs' = [ strs EXCEPT ![t] = << >> ]
    /\ saved' = [ saved EXCEPT ![t] = << >> ]
    /\ UNCHANGED << s_buffer, pc, written, result, process >>
    /\ UNCHANGED << flagset_vars, res, ss, wide >>

\* the text a thread reads through the str its call number k returned
TextOf(t, k) == CStr(s_buffer[strs[t][k].buffer])

----------------------------------------------------------------------------
(* Result< T > = std::expected< T, Error > and Status = Result< void >.   *)

ResultTypes == { "int", "void" }

\* a Result< T > that holds a value
expected(T, v) == [ has_value |-> TRUE, T |-> T, value |-> v, error |-> ErrorDefault ]

\* a Result< T > that holds an Error
unexpected(T, e) == [ has_value |-> FALSE, T |-> T, value |-> 0, error |-> e ]

\* what a call that ended the process leaves behind
aborted(op) ==
    [ op |-> op, arg |-> NoArg, outcome |-> "abort", kind |-> "SIGABRT",
      message |-> "", value |-> Void ]

\* Result< T > r = ok( std::move( value ) )
Ok(v) ==
    /\ process = "running"
    /\ result' = expected("int", v)
    /\ res' = ok("ok(value)", v, Void)
    /\ UNCHANGED << errs, s_buffer, pc, written, strs, saved, process >>
    /\ UNCHANGED << flagset_vars, ss, wide >>

\* Result< T > r = ok< T >()
OkDefault ==
    /\ process = "running"
    /\ result' = expected("int", 0)
    /\ res' = ok("ok<T>()", NoArg, Void)
    /\ UNCHANGED << errs, s_buffer, pc, written, strs, saved, process >>
    /\ UNCHANGED << flagset_vars, ss, wide >>

\* Status s = ok()
OkStatus ==
    /\ process = "running"
    /\ result' = expected("void", 0)
    /\ res' = ok("ok()", NoArg, Void)
    /\ UNCHANGED << errs, s_buffer, pc, written, strs, saved, process >>
    /\ UNCHANGED << flagset_vars, ss, wide >>

\* variant: err( msg, typ ) drops the kind and builds a GENERIC_ERROR
Err_GenericKind(T, msg, typ) ==
    /\ process = "running"
    /\ result' = unexpected(T, Error(msg, "GENERIC_ERROR"))
    /\ res' = ok("err(msg, type)", NoArg, Void)
    /\ UNCHANGED << errs, s_buffer, pc, written, strs, saved, process >>
    /\ UNCHANGED << flagset_vars, ss, wide >>

\* Result< T > r = err( msg, typ )
Err(T, msg, typ) ==
    /\ process = "running"
    /\ result' = unexpected(T, Error(msg, typ))
    /\ res' = ok("err(msg, type)", NoArg, Void)
    /\ UNCHANGED << errs, s_buffer, pc, written, strs, saved, process >>
    /\ UNCHANGED << flagset_vars, ss, wide >>

\* Result< T > r = err( msg )
ErrMessageOnly(T, msg) ==
    /\ process = "running"
    /\ result' = unexpected(T, Error(msg, "GENERIC_ERROR"))
    /\ res' = ok("err(msg)", NoArg, Void)
    /\ UNCHANGED << errs, s_buffer, pc, written, strs, saved, process >>
    /\ UNCHANGED << flagset_vars, ss, wide >>

\* variant: an error falls through to res.value()
Unwrap_NoAbort ==
    /\ process = "running"
    /\ res' = ok("unwrap", NoArg, Num(result.value))
    /\ UNCHANGED << errs, s_buffer, pc, written, strs, saved, result, process >>
    /\ UNCHANGED << flagset_vars, ss, wide >>

\* unwrap( r ) and unwrap( std::move( r ) )
Unwrap ==
    /\ process = "running"
    /\ IF ~ result.has_value
       THEN /\ process' = "aborted"
            /\ res' = aborted("unwrap")
       ELSE /\ res' = ok("unwrap", NoArg,
                         IF result.T = "void" THEN Void ELSE Num(result.value))
            /\ UNCHANGED process
    /\ UNCHANGED << errs, s_buffer, pc, written, strs, saved, result >>
    /\ UNCHANGED << flagset_vars, ss, wide >>

\* verify( s )
Verify ==
    /\ process = "running"
    /\ result.T = "void"
    /\ IF ~ result.has_value
       THEN /\ process' = "aborted"
            /\ res' = aborted("verify")
       ELSE /\ res' = ok("verify", NoArg, Void)
            /\ UNCHANGED process
    /\ UNCHANGED << errs, s_buffer, pc, written, strs, saved, result >>
    /\ UNCHANGED << flagset_vars, ss, wide >>

----------------------------------------------------------------------------
(* cmn::ss::snprintf (snprintf.hpp): the bounded "%s" formatter.          *)
(* A str is a null pointer or points to a terminated text; the memory is  *)
(* a function from the offsets that exist or were written to characters.  *)

NullPtr == [ null |-> TRUE, text |-> << >> ]
Str(text) == [ null |-> FALSE, text |-> text ]

\* *( p + k ) for p at the start of text: its character, or its terminator
CharAt(text, k) == IF k < Len(text) THEN text[k + 1] ELSE Nul

\* char buffer[ size ], not initialised: "?" is the content of memory
\* nothing was stored in
Buffer(size) == [ i \in 0 .. (size - 1) |-> "?" ]

\* buffer[ pos ] = c, whether or not pos lies inside the array
Store(buffer, pos, c) ==
    [ i \in (DOMAIN buffer) \cup { pos } |-> IF i = pos THEN c ELSE buffer[i] ]

\* lines 19-21 and 34-36: while( *sub and pos < size - 1 ) buffer[pos++] = *sub++
RECURSIVE copy(_, _, _, _, _)
copy(buffer, pos, size, sub, k) ==
    IF CharAt(sub, k) # Nul /\ pos < size - 1
    THEN copy(Store(buffer, pos, CharAt(sub, k)), pos + 1, size, sub, k + 1)
    ELSE [ buffer |-> buffer, pos |-> pos ]

\* lines 28-42: the loop over the format when there are arguments
RECURSIVE substitute(_, _, _, _, _, _, _)
substitute(buffer, pos, size, format, fmt, arg_array, arg_index) ==
    IF CharAt(format, fmt) # Nul /\ pos < size - 1
    THEN IF /\ CharAt(format, fmt) = "%"
            /\ CharAt(format, fmt + 1) = "s"
            /\ arg_index < Len(arg_array)
         THEN LET sub == arg_array[arg_index + 1]
                  done == IF ~ sub.null
                          THEN copy(buffer, pos, size, sub.text, 0)
                          ELSE [ buffer |-> buffer, pos |-> pos ]
              IN  substitute(done.buffer, done.pos, size, format, fmt + 2,
                             arg_array, arg_index + 1)
         ELSE substitute(Store(buffer, pos, CharAt(format, fmt)), pos + 1, size,
                         format, fmt + 1, arg_array, arg_index)
    ELSE [ buffer |-> buffer, pos |-> pos ]

\* variant: the loops run while pos < size, one character too far
snprintf_OffByOne(null, buffer, size, format, args) ==
    IF null \/ size = 0
    THEN [ buffer |-> buffer, ret |-> 0 ]
    ELSE LET done == IF Len(args) = 0
                     THEN copy(buffer, 0, size + 1, format, 0)
                     ELSE substitute(buffer, 0, size + 1, format, 0, args, 0)
         IN  [ buffer |-> Store(done.buffer, done.pos, Nul), ret |-> done.pos ]

\* variant: the arguments are taken from the last to the first
snprintf_ArgsReversed(null, buffer, size, format, args) ==
    IF null \/ size = 0
    THEN [ buffer |-> buffer, ret |-> 0 ]
    ELSE LET done == IF Len(args) = 0
                     THEN copy(buffer, 0, size, format, 0)
                     ELSE substitute(buffer, 0, size, format, 0,
                                     [ k \in 1 .. Len(args) |-> args[Len(args) + 1 - k] ], 0)
         IN  [ buffer |-> Store(done.buffer, done.pos, Nul), ret |-> done.pos ]

\* cmn::ss::snprintf( buffer, size, format, args... ): the memory after the
\* call and the value returned; null says that buffer is a null pointer
snprintf(null, buffer, size, format, args) ==
    IF null \/ size = 0
    THEN [ buffer |-> buffer, ret |-> 0 ]
    ELSE LET done == IF Len(args) = 0
                     THEN copy(buffer, 0, size, format, 0)
                     ELSE substitute(buffer, 0, size, format, 0, args, 0)
         IN  [ buffer |-> Store(done.buffer, done.pos, Nul), ret |-> done.pos ]

\* no call of cmn::ss::snprintf is under way
NoCall ==
    [ called |-> FALSE, null |-> TRUE, size |-> 0, format |-> << >>, args |-> << >>,
      buffer |-> Buffer(0), ret |-> 0 ]

\* n = cmn::ss::snprintf( buffer, size, format, args... ) on a fresh
\* char buffer[ size ], or with nullptr for the buffer
SsSnprintf(null, size, format, args) ==
    /\ ~ ss.called
    /\ LET call == snprintf(null, IF null THEN Buffer(0) ELSE Buffer(size),
                            size, format, args)
       IN  ss' = [ called |-> TRUE, null |-> null, size |-> size, format |-> format,
                   args |-> args, buffer |-> call.buffer, ret |-> call.ret ]
    /\ UNCHANGED << flagset_vars, res, result_vars, wide >>

\* the caller is done with the buffer and the count
SsDone ==
    /\ ss.called
    /\ ss' = NoCall
    /\ UNCHANGED << flagset_vars, res, result_vars, wide >>

----------------------------------------------------------------------------
(* FlagSet of an enum whose flags reach bit 31 and beyond.  Integers that  *)
(* do not fit the integers of the model checker are bit patterns: the set *)
(* of the positions of their one bits.                                     *)

\* enum class Flags32 : u32 and enum class Flags64 : u64, with flags at the
\* bits 0, 30, 31 and, for the 64-bit one, 32 and 63; ALL is their union
WideEnums == { "Flags32", "Flags64" }

WideALL(e) ==
    CASE e = "Flags32" -> { 0, 30, 31 }
      [] e = "Flags64" -> { 0, 30, 31, 32, 63 }

\* the loop of NUM_BITS over a bit pattern: while( all_bits ) { all_bits >>= 1; ++count; }
RECURSIVE WideNumBitsLoop(_, _)
WideNumBitsLoop(all_bits, num_bits) ==
    IF all_bits # { }
    THEN WideNumBitsLoop({ b - 1 : b \in all_bits \ { 0 } }, num_bits + 1)
    ELSE num_bits

\* NUM_BITS of FlagSet< e >
WideNumBits(e) == WideNumBitsLoop(WideALL(e), 0)

\* std::bitset< NUM_BITS >( raw & VALID_MASK )
WideBitset(e, raw) == [ i \in 0 .. (WideNumBits(e) - 1) |-> i \in (raw \cap WideALL(e)) ]

\* the width of int, the type of the expression 1 << i
IntBits == 32

\* what a shift by IntBits or more, which is undefined, does on the targets:
\* the count is taken modulo IntBits, or every bit is shifted out
ShiftBehaviours == { "count modulo width", "all bits out" }

\* the int 1 << i as a bit pattern of IntBits bits
ShiftLeftOne(i, behaviour) ==
    IF i < IntBits THEN { i }
    ELSE IF behaviour = "count modulo width" THEN { i % IntBits }
    ELSE { }

\* static_cast< Enum >( x ) of an int x: the sign bit is extended to the
\* width of the underlying type
CastToEnum(e, x) ==
    IF (IntBits - 1) \in x
    THEN x \cup (IntBits .. (UnderlyingBits(e) - 1))
    ELSE x

\* forEach: the flags static_cast< Enum >( 1 << i ) func is called with, for
\* i = 0 .. NUM_BITS - 1
RECURSIVE WideForEachFrom(_, _, _, _, _)
WideForEachFrom(e, num_bits, b, i, behaviour) ==
    IF i < num_bits
    THEN (IF b[i] THEN << CastToEnum(e, ShiftLeftOne(i, behaviour)) >> ELSE << >>)
             \o WideForEachFrom(e, num_bits, b, i + 1, behaviour)
    ELSE << >>

\* Iterator::advance()
RECURSIVE WideAdvanceTo(_, _, _)
WideAdvanceTo(num_bits, b, m_index) ==
    IF m_index < num_bits /\ ~ b[m_index]
    THEN WideAdvanceTo(num_bits, b, m_index + 1)
    ELSE m_index

\* FlagSet< e > flags
WideDefault(e) ==
    [ enum |-> e, m_bits |-> WideBitset(e, { }), it |-> NoIterator,
      op |-> "FlagSet()", produced |-> << >> ]

\* flags = FlagSet::fromUnderlying( raw )
WideFromUnderlying(raw) ==
    /\ wide' = [ wide EXCEPT !.m_bits = WideBitset(wide.enum, raw),
                             !.op = "fromUnderlying", !.produced = << >> ]
    /\ UNCHANGED << flagset_vars, res, result_vars, ss >>

\* flags.forEach( func )
WideForEach(behaviour) ==
    /\ wide' = [ wide EXCEPT !.op = "forEach",
                             !.produced = WideForEachFrom(wide.enum, WideNumBits(wide.enum),
                                                          wide.m_bits, 0, behaviour) ]
    /\ UNCHANGED << flagset_vars, res, result_vars, ss >>

\* it = flags.begin()
WideBegin ==
    /\ wide' = [ wide EXCEPT !.it = WideAdvanceTo(WideNumBits(wide.enum), wide.m_bits, 0),
                             !.op = "begin", !.produced = << >> ]
    /\ UNCHANGED << flagset_vars, res, result_vars, ss >>

\* *it, inside the loop ( it != end() )
WideIteratorDeref(behaviour) ==
    /\ wide.it # NoIterator
    /\ wide.it # WideNumBits(wide.enum)
    /\ wide' = [ wide EXCEPT !.op = "operator*",
                             !.produced =
                                 << CastToEnum(wide.enum, ShiftLeftOne(wide.it, behaviour)) >> ]
    /\ UNCHANGED << flagset_vars, res, result_vars, ss >>

\* ++it, inside the loop ( it != end() )
WideIteratorIncrement ==
    /\ wide.it # NoIterator
    /\ wide.it # WideNumBits(wide.enum)
    /\ wide' = [ wide EXCEPT !.it = WideAdvanceTo(WideNumBits(wide.enum), wide.m_bits,
                                                 wide.it + 1),
                             !.op = "operator++", !.produced = << >> ]
    /\ UNCHANGED << flagset_vars, res, result_vars, ss >>

----------------------------------------------------------------------------
(* Initial state: a default-constructed FlagSet< enum > and a second one, *)
(* and the result engine before its first call.                          *)

\* no Error constructed, every instance of s_buffer zero-initialised, no
\* Result built yet: Status{} holds a value
InitResult ==
    /\ errs = [ t \in Threads |-> << >> ]
    /\ s_buffer = [ b \in Threads |-> ZeroBuffer ]
    /\ pc = [ t \in Threads |-> "idle" ]
    /\ written = [ t \in Threads |-> 0 ]
    /\ strs = [ t \in Threads |-> << >> ]
    /\ saved = [ t \in Threads |-> << >> ]
    /\ result = expected("void", 0)
    /\ process = "running"

\* no call of the formatter yet, and a default-constructed FlagSet< Flags64 >
Init ==
    /\ enum \in Enums
    /\ m_bits = FlagSetDefault
    /\ other = FlagSetDefault
    /\ res = ok("FlagSet()", NoArg, Void)
    /\ it = NoIterator
    /\ InitResult
    /\ ss = NoCall
    /\ wide = WideDefault("Flags64")

\* the result engine alone: the FlagSets stay as constructed
InitEngine == Init /\ enum = "Permissions"

\* a default-constructed FlagSet of either of the wide enums
InitWide ==
    /\ enum = "Permissions"
    /\ m_bits = FlagSetDefault
    /\ other = FlagSetDefault
    /\ res = ok("FlagSet()", NoArg, Void)
    /\ it = NoIterator
    /\ InitResult
    /\ ss = NoCall
    /\ wide \in { WideDefault(e) : e \in WideEnums }

\* a default-constructed FlagSet of any of the bitmask enums
InitEnums ==
    /\ enum \in Enums \cup { "FileFlags", "LargeFlags", "TestBitmask", "EmptyFlags" }
    /\ m_bits = FlagSetDefault
    /\ other = FlagSetDefault
    /\ res = ok("FlagSet()", NoArg, Void)
    /\ it = NoIterator
    /\ InitResult
    /\ ss = NoCall
    /\ wide = WideDefault("Flags64")

----------------------------------------------------------------------------
(* Constructors and factories *)

\* flags = FlagSet()
ConstructDefault ==
    /\ m_bits' = FlagSetDefault
    /\ res' = ok("FlagSet()", NoArg, Void)
    /\ UNCHANGED << enum, other, it, result_vars, ss, wide >>

\* flags = FlagSet( num )
Construct(num) ==
    /\ m_bits' = FlagSet(num)
    /\ res' = ok("FlagSet", num, Void)
    /\ UNCHANGED << enum, other, it, result_vars, ss, wide >>

\* flags = FlagSet::fromUnderlying( raw )
FromUnderlying(raw) ==
    /\ m_bits' = fromUnderlying(raw)
    /\ res' = ok("fromUnderlying", raw, Void)
    /\ UNCHANGED << enum, other, it, result_vars, ss, wide >>

\* result = FlagSet::fromEnum( num ); if( result ) flags = *result
FromEnum(num) ==
    /\ IF ~ isValid(num)
       THEN /\ res' = err("fromEnum", num, "Invalid enum value for FlagSet", "VALUE_ERROR")
            /\ UNCHANGED m_bits
       ELSE /\ res' = ok("fromEnum", num, Flags(FlagSet(num)))
            /\ m_bits' = FlagSet(num)
    /\ UNCHANGED << enum, other, it, result_vars, ss, wide >>

\* other = FlagSet::fromUnderlying( raw )
OtherFromUnderlying(raw) ==
    /\ other' = fromUnderlying(raw)
    /\ res' = ok("other=fromUnderlying", raw, Void)
    /\ UNCHANGED << enum, m_bits, it, result_vars, ss, wide >>

\* other = flags (implicit copy assignment)
CopyToOther ==
    /\ other' = m_bits
    /\ res' = ok("other=flags", NoArg, Void)
    /\ UNCHANGED << enum, m_bits, it, result_vars, ss, wide >>

----------------------------------------------------------------------------
(* Single flag operations *)

\* variant: has() switches the flag on before it tests it
Has_Setting(num) ==
    /\ IF ~ isValid(num)
       THEN /\ res' = err("has", num, "Invalid enum value", "VALUE_ERROR")
            /\ UNCHANGED m_bits
       ELSE IF ~ InRange(bitPosition(num))
       THEN /\ res' = thrown("has", num, "std::out_of_range")
            /\ UNCHANGED m_bits
       ELSE /\ m_bits' = bitset_set(m_bits, bitPosition(num))
            /\ res' = ok("has", num, Boolean(TRUE))
    /\ UNCHANGED << enum, other, it, result_vars, ss, wide >>

Has(num) ==
    /\ IF ~ isValid(num)
       THEN res' = err("has", num, "Invalid enum value", "VALUE_ERROR")
       ELSE IF ~ InRange(bitPosition(num))
       THEN res' = thrown("has", num, "std::out_of_range")
       ELSE res' = ok("has", num, Boolean(m_bits[bitPosition(num)]))
    /\ UNCHANGED << enum, m_bits, other, it, result_vars, ss, wide >>

Set(num) ==
    /\ IF ~ isValid(num)
       THEN /\ res' = err("set", num, "Invalid enum value", "VALUE_ERROR")
            /\ UNCHANGED m_bits
       ELSE IF ~ InRange(bitPosition(num))
       THEN /\ res' = thrown("set", num, "std::out_of_range")
            /\ UNCHANGED m_bits
       ELSE /\ m_bits' = bitset_set(m_bits, bitPosition(num))
            /\ res' = ok("set", num, Void)
    /\ UNCHANGED << enum, other, it, result_vars, ss, wide >>

Clear(num) ==
    /\ IF ~ isValid(num)
       THEN /\ res' = err("clear", num, "Invalid enum value", "VALUE_ERROR")
            /\ UNCHANGED m_bits
       ELSE IF ~ InRange(bitPosition(num))
       THEN /\ res' = thrown("clear", num, "std::out_of_range")
            /\ UNCHANGED m_bits
       ELSE /\ m_bits' = bitset_reset(m_bits, bitPosition(num))
            /\ res' = ok("clear", num, Void)
    /\ UNCHANGED << enum, other, it, result_vars, ss, wide >>

Toggle(num) ==
    /\ IF ~ isValid(num)
       THEN /\ res' = err("toggle", num, "Invalid enum value", "VALUE_ERROR")
            /\ UNCHANGED m_bits
       ELSE IF ~ InRange(bitPosition(num))
       THEN /\ res' = thrown("toggle", num, "std::out_of_range")
            /\ UNCHANGED m_bits
       ELSE /\ m_bits' = bitset_flip(m_bits, bitPosition(num))
            /\ res' = ok("toggle", num, Void)
    /\ UNCHANGED << enum, other, it, result_vars, ss, wide >>

----------------------------------------------------------------------------
(* Bulk operations *)

\* variant: every bit of the vector is set, m_bits.set()
SetAll_EveryBit ==
    /\ m_bits' = [ i \in Positions |-> TRUE ]
    /\ res' = ok("setAll", NoArg, Void)
    /\ UNCHANGED << enum, other, it, result_vars, ss, wide >>

SetAll ==
    /\ m_bits' = bitset(VALID_MASK)
    /\ res' = ok("setAll", NoArg, Void)
    /\ UNCHANGED << enum, other, it, result_vars, ss, wide >>

ClearAll ==
    /\ m_bits' = [ i \in Positions |-> FALSE ]
    /\ res' = ok("clearAll", NoArg, Void)
    /\ UNCHANGED << enum, other, it, result_vars, ss, wide >>

ToggleAll ==
    /\ m_bits' = bitset_xor(m_bits, bitset(VALID_MASK))
    /\ res' = ok("toggleAll", NoArg, Void)
    /\ UNCHANGED << enum, other, it, result_vars, ss, wide >>

----------------------------------------------------------------------------
(* Conversions and queries (all const) *)

ToUnderlying ==
    /\ res' = ok("toUnderlying", NoArg, Num(toUnderlying(m_bits)))
    /\ UNCHANGED << enum, m_bits, other, it, result_vars, ss, wide >>

ToEnum ==
    /\ res' = ok("toEnum", NoArg, Num(toEnum(m_bits)))
    /\ UNCHANGED << enum, m_bits, other, it, result_vars, ss, wide >>

HasAny ==
    /\ res' = ok("hasAny", NoArg, Boolean(hasAny(m_bits)))
    /\ UNCHANGED << enum, m_bits, other, it, result_vars, ss, wide >>

HasNone ==
    /\ res' = ok("hasNone", NoArg, Boolean(hasNone(m_bits)))
    /\ UNCHANGED << enum, m_bits, other, it, result_vars, ss, wide >>

Count ==
    /\ res' = ok("count", NoArg, Num(count(m_bits)))
    /\ UNCHANGED << enum, m_bits, other, it, result_vars, ss, wide >>

IsValid ==
    /\ res' = ok("isValid", NoArg, Boolean(isValidInstance(m_bits)))
    /\ UNCHANGED << enum, m_bits, other, it, result_vars, ss, wide >>

ForEach ==
    /\ res' = ok("forEach", NoArg, List(forEach(m_bits)))
    /\ UNCHANGED << enum, m_bits, other, it, result_vars, ss, wide >>

\* explicit operator bool
OperatorBool ==
    /\ res' = ok("operator bool", NoArg, Boolean(operator_bool(m_bits)))
    /\ UNCHANGED << enum, m_bits, other, it, result_vars, ss, wide >>

\* explicit operator Underlying
OperatorUnderlying ==
    /\ res' = ok("operator Underlying", NoArg, Num(toUnderlying(m_bits)))
    /\ UNCHANGED << enum, m_bits, other, it, result_vars, ss, wide >>

\* explicit operator Enum
OperatorEnum ==
    /\ res' = ok("operator Enum", NoArg, Num(toEnum(m_bits)))
    /\ UNCHANGED << enum, m_bits, other, it, result_vars, ss, wide >>

----------------------------------------------------------------------------
(* Operators: the const ones return a new FlagSet (kept in res.value), the *)
(* compound ones change m_bits in place                                    *)

OperatorOr ==
    /\ res' = ok("operator|", NoArg, Flags(operator_or(m_bits, other)))
    /\ UNCHANGED << enum, m_bits, other, it, result_vars, ss, wide >>

OperatorAnd ==
    /\ res' = ok("operator&", NoArg, Flags(operator_and(m_bits, other)))
    /\ UNCHANGED << enum, m_bits, other, it, result_vars, ss, wide >>

OperatorXor ==
    /\ res' = ok("operator^", NoArg, Flags(operator_xor(m_bits, other)))
    /\ UNCHANGED << enum, m_bits, other, it, result_vars, ss, wide >>

OperatorNot ==
    /\ res' = ok("operator~", NoArg, Flags(operator_not(m_bits)))
    /\ UNCHANGED << enum, m_bits, other, it, result_vars, ss, wide >>

OperatorOrAssign ==
    /\ m_bits' = bitset_or(m_bits, other)
    /\ res' = ok("operator|=", NoArg, Void)
    /\ UNCHANGED << enum, other, it, result_vars, ss, wide >>

\* variant: operator&= keeps the bits of the right operand
OperatorAndAssign_Assign ==
    /\ m_bits' = other
    /\ res' = ok("operator&=", NoArg, Void)
    /\ UNCHANGED << enum, other, it, result_vars, ss, wide >>

OperatorAndAssign ==
    /\ m_bits' = bitset_and(m_bits, other)
    /\ res' = ok("operator&=", NoArg, Void)
    /\ UNCHANGED << enum, other, it, result_vars, ss, wide >>

OperatorXorAssign ==
    /\ m_bits' = bitset_xor(m_bits, other)
    /\ res' = ok("operator^=", NoArg, Void)
    /\ UNCHANGED << enum, other, it, result_vars, ss, wide >>

----------------------------------------------------------------------------
(* Iteration: for( it = begin(); it != end(); ++it ) use( *it )            *)
(* The iterator refers to m_bits of the FlagSet it came from.              *)

\* it = flags.begin()
Begin ==
    /\ it' = advance(m_bits, 0)
    /\ res' = ok("begin", NoArg, Void)
    /\ UNCHANGED << enum, m_bits, other, result_vars, ss, wide >>

\* it = flags.begin() of a for loop, entered when no other loop is running
BeginLoop ==
    /\ it \in { NoIterator, NUM_BITS }
    /\ it' = advance(m_bits, 0)
    /\ res' = ok("begin", NoArg, Void)
    /\ UNCHANGED << enum, m_bits, other, result_vars, ss, wide >>

\* for( auto flag : flags ) collected.push_back( flag )
RangeFor ==
    /\ res' = ok("range-for", NoArg, List(iterate(m_bits)))
    /\ UNCHANGED << enum, m_bits, other, it, result_vars, ss, wide >>

\* *it, inside the loop ( it != end() )
IteratorDeref ==
    /\ it # NoIterator
    /\ it # NUM_BITS
    /\ res' = ok("operator*", NoArg, Num(FlagAt(it)))
    /\ UNCHANGED << enum, m_bits, other, it, result_vars, ss, wide >>

\* variant: operator++ forgets ++m_index and only calls advance()
IteratorIncrement_NoStep ==
    /\ it # NoIterator
    /\ it # NUM_BITS
    /\ it' = advance(m_bits, it)
    /\ res' = ok("operator++", NoArg, Void)
    /\ UNCHANGED << enum, m_bits, other, result_vars, ss, wide >>

\* ++it, inside the loop ( it != end() )
IteratorIncrement ==
    /\ it # NoIterator
    /\ it # NUM_BITS
    /\ it' = advance(m_bits, it + 1)
    /\ res' = ok("operator++", NoArg, Void)
    /\ UNCHANGED << enum, m_bits, other, result_vars, ss, wide >>

----------------------------------------------------------------------------
(* Spec: one FlagSet driven through its constructors, single-flag and bulk  *)
(* operations, conversions and queries, with every candidate of Raw.        *)

Next ==
    \/ ConstructDefault
    \/ \E num \in Raw : Construct(num)
    \/ \E raw \in Raw : FromUnderlying(raw)
    \/ \E num \in Raw : FromEnum(num)
    \/ \E num \in Raw : Has(num)
    \/ \E num \in Raw : Set(num)
    \/ \E num \in Raw : Clear(num)
    \/ \E num \in Raw : Toggle(num)
    \/ SetAll
    \/ ClearAll
    \/ ToggleAll
    \/ ToUnderlying
    \/ ToEnum
    \/ HasAny
    \/ HasNone
    \/ Count
    \/ IsValid
    \/ ForEach
    \/ OperatorBool
    \/ OperatorUnderlying
    \/ OperatorEnum

Spec == Init /\ [][Next]_vars

----------------------------------------------------------------------------
(* SpecAlgebra: two FlagSets of the same type, every constructor and        *)
(* mutator, and the operators between the two; candidates from SmallRaw.    *)

NextAlgebra ==
    \/ ConstructDefault
    \/ \E num \in SmallRaw : Construct(num)
    \/ \E raw \in SmallRaw : FromUnderlying(raw)
    \/ \E num \in SmallRaw : FromEnum(num)
    \/ \E raw \in SmallRaw : OtherFromUnderlying(raw)
    \/ CopyToOther
    \/ \E num \in SmallRaw : Set(num)
    \/ \E num \in SmallRaw : Clear(num)
    \/ \E num \in SmallRaw : Toggle(num)
    \/ SetAll
    \/ ClearAll
    \/ ToggleAll
    \/ OperatorOr
    \/ OperatorAnd
    \/ OperatorXor
    \/ OperatorNot
    \/ OperatorOrAssign
    \/ OperatorAndAssign
    \/ OperatorXorAssign

SpecAlgebra == Init /\ [][NextAlgebra]_vars

----------------------------------------------------------------------------
(* SpecIter: one FlagSet with a live iterator; has() and the queries run,   *)
(* and the set is mutated, between the iterator's steps.                    *)

NextIter ==
    \/ \E num \in Raw : Has(num)
    \/ \E num \in SmallRaw : Set(num)
    \/ \E num \in SmallRaw : Clear(num)
    \/ \E num \in SmallRaw : Toggle(num)
    \/ SetAll
    \/ ClearAll
    \/ ToggleAll
    \/ ToUnderlying
    \/ ToEnum
    \/ HasAny
    \/ HasNone
    \/ Count
    \/ IsValid
    \/ ForEach
    \/ OperatorBool
    \/ RangeFor
    \/ Begin
    \/ IteratorDeref
    \/ IteratorIncrement

SpecIter == Init /\ [][NextIter]_vars

----------------------------------------------------------------------------
(* SpecError: the main thread formats Errors of every kind, with short     *)
(* messages, messages holding conversion specifications, and messages     *)
(* around and beyond the capacity of s_buffer.                            *)

Repeat(c, n) == [ i \in 1 .. n |-> c ]

\* std::string long_msg( 300, 'A' )
MaxMsgLen == 300

EmptyMessage == << >>
DivisionByZero == << "d", "i", "v", "i", "s", "i", "o", "n", " ", "b", "y", " ", "z", "e", "r", "o" >>
WithConversions == << "E", "r", "r", "o", "r", " ", "w", "i", "t", "h", " ", "%", "s", " ", "a", "n", "d", " ", "%", "d" >>
FirstError == << "f", "i", "r", "s", "t", " ", "e", "r", "r", "o", "r" >>
SecondError == << "s", "e", "c", "o", "n", "d", " ", "e", "r", "r", "o", "r" >>

\* lengths at which "<name>: <message>" reaches the last character of
\* s_buffer for the longest and for the shortest kind name, and beyond
LongLengths ==
    { BufferSize - 1 - Len(toStr("NOT_IMPLEMENTED_ERROR")) - 2,
      BufferSize - Len(toStr("NOT_IMPLEMENTED_ERROR")) - 2,
      BufferSize - 1 - Len(toStr("OS_ERROR")) - 2,
      BufferSize - Len(toStr("OS_ERROR")) - 2,
      MaxMsgLen }

LongMessages == { Repeat("A", n) : n \in LongLengths }

\* every kind with the empty message and with conversion specifications;
\* the long messages with the longest, the shortest and the tested kind name
Errors ==
    { Error(msg, typ) : msg \in { EmptyMessage, WithConversions }, typ \in ErrorType }
        \cup { Error(msg, typ) : msg \in LongMessages,
                  typ \in { "NOT_IMPLEMENTED_ERROR", "OS_ERROR", "RUNTIME_ERROR" } }
        \cup { Error(DivisionByZero, "ZERO_DIVISION_ERROR") }

NextError ==
    \/ \E e \in Errors : NewError(MainThread, e.message, e.type)
    \/ ToStrFill(MainThread)
    \/ ToStrFormat(MainThread)
    \/ ToStrReturn(MainThread)
    \/ CopyOut(MainThread)
    \/ EndScope(MainThread)

SpecError == InitEngine /\ [][NextError]_vars

----------------------------------------------------------------------------
(* SpecThreads: two threads format Errors concurrently, two per scope,    *)
(* every step of toStr() interleaved with the steps of the other thread.  *)

ThreadErrors ==
    { Error(FirstError, "VALUE_ERROR"), Error(SecondError, "INDEX_ERROR") }

NextThreads ==
    \E t \in Threads :
        \/ \E e \in ThreadErrors : NewError(t, e.message, e.type)
        \/ ToStrFill(t)
        \/ ToStrFormat(t)
        \/ ToStrReturn(t)
        \/ CopyOut(t)
        \/ EndScope(t)

SpecThreads == InitEngine /\ [][NextThreads]_vars

----------------------------------------------------------------------------
(* SpecResult: a Result or Status is built by ok() and err() and handed   *)
(* to unwrap() and verify(), until one of them ends the process.          *)

ResultValues == { 0, 123, 456 }

ResultMessages == { EmptyMessage, DivisionByZero }

NextResult ==
    \/ \E v \in ResultValues : Ok(v)
    \/ OkDefault
    \/ OkStatus
    \/ \E T \in ResultTypes, msg \in ResultMessages, typ \in ErrorType : Err(T, msg, typ)
    \/ \E T \in ResultTypes, msg \in ResultMessages : ErrMessageOnly(T, msg)
    \/ Unwrap
    \/ Verify

SpecResult == InitEngine /\ [][NextResult]_vars

----------------------------------------------------------------------------
(* SpecEnums: one FlagSet of each bitmask enum, of every underlying width, *)
(* filled and emptied through its factories, single-flag and bulk          *)
(* operations, and counted.                                                *)

NextEnums ==
    \/ ConstructDefault
    \/ \E raw \in SmallRaw : FromUnderlying(raw)
    \/ \E num \in SmallRaw : Set(num)
    \/ \E num \in SmallRaw : Toggle(num)
    \/ SetAll
    \/ ClearAll
    \/ Count
    \/ ToUnderlying

SpecEnums == InitEnums /\ [][NextEnums]_vars

----------------------------------------------------------------------------
(* SpecIterLoop: the for loop over a FlagSet, one loop at a time, whose    *)
(* body may change the set; the loop statement runs ++it again and again  *)
(* while it != end().                                                      *)

NextIterLoop ==
    \/ \E num \in SmallRaw : Set(num)
    \/ \E num \in SmallRaw : Clear(num)
    \/ \E num \in SmallRaw : Toggle(num)
    \/ SetAll
    \/ ClearAll
    \/ ToggleAll
    \/ BeginLoop
    \/ IteratorDeref
    \/ IteratorIncrement

SpecIterLoop == Init /\ [][NextIterLoop]_vars /\ WF_vars(IteratorIncrement)

----------------------------------------------------------------------------
(* SpecFormat: calls of cmn::ss::snprintf with every format of up to       *)
(* MaxFmtLen characters over an ordinary character, '%' and 's', up to     *)
(* MaxArgs arguments, and buffers of 0 to MaxSize characters.              *)

MaxSize == 6

MaxFmtLen == 4

MaxArgs == 2

\* the formats of up to n characters over an ordinary character, '%' and 's'
TextsUpTo(n) == UNION { [ 1 .. k -> { "a", "%", "s" } ] : k \in 0 .. n }

\* the argument lists: each argument is a null pointer, the empty text, a
\* text, or a text that reads as a directive
ArgLists ==
    UNION { [ 1 .. k -> { NullPtr, Str(<< >>), Str(<< "x" >>), Str(<< "%", "s" >>) } ] :
               k \in 0 .. MaxArgs }

\* a call with a buffer of any size, or with a null buffer and a short format
NextFormat ==
    \/ /\ ~ ss.called
       /\ \E size \in 0 .. MaxSize, format \in TextsUpTo(MaxFmtLen), args \in ArgLists :
              SsSnprintf(FALSE, size, format, args)
    \/ /\ ~ ss.called
       /\ \E size \in 0 .. MaxSize, format \in TextsUpTo(2), args \in ArgLists :
              SsSnprintf(TRUE, size, format, args)
    \/ SsDone

SpecFormat == InitEngine /\ [][NextFormat]_vars

----------------------------------------------------------------------------
(* SpecWide: a FlagSet of a 32-bit and of a 64-bit enum with flags at bit  *)
(* 31 and above, filled from raw values, traversed by forEach and by its   *)
(* iterator.                                                               *)

NextWide ==
    \/ \E raw \in SUBSET (WideALL(wide.enum) \cup { 5 }) : WideFromUnderlying(raw)
    \/ \E behaviour \in ShiftBehaviours : WideForEach(behaviour)
    \/ WideBegin
    \/ \E behaviour \in ShiftBehaviours : WideIteratorDeref(behaviour)
    \/ WideIteratorIncrement

SpecWide == InitWide /\ [][NextWide]_vars

----------------------------------------------------------------------------
(* Vocabulary of the properties: integers and bit vectors as sets of bit   *)
(* positions.                                                              *)

RECURSIVE BitsFrom(_, _)
BitsFrom(x, i) ==
    IF x = 0 THEN { }
    ELSE (IF x % 2 = 1 THEN { i } ELSE { }) \cup BitsFrom(x \div 2, i + 1)

\* the positions of the set bits of the natural number x
Bits(x) == BitsFrom(x, 0)

\* the positions that are set in the bit vector b
Stored(b) == { i \in DOMAIN b : b[i] }

MaskBits == Bits(VALID_MASK)

OutsideMask(c) == Bits(c) \ MaskBits # { }

SingleFlag(c) == Cardinality(Bits(c)) = 1 /\ ~ OutsideMask(c)

MultiBit(c) == Cardinality(Bits(c)) >= 2 /\ ~ OutsideMask(c)

SingleFlagOps == { "has", "set", "clear", "toggle" }

ValueError == res.outcome = "error" /\ res.kind = "VALUE_ERROR"

ValueErrorNext == res'.outcome = "error" /\ res'.kind = "VALUE_ERROR"

----------------------------------------------------------------------------
\* C1: in every reachable state the stored bits of every FlagSet (the
\* instance, the second operand, and a FlagSet returned by an operator or
\* by fromEnum) hold no bit outside VALID_MASK, and isValid() is true.
ReturnsFlagSet ==
    /\ res.outcome = "value"
    /\ res.op \in { "fromEnum", "operator|", "operator&", "operator^", "operator~" }

C1_StoredBitsValid ==
    /\ Stored(m_bits) \subseteq MaskBits /\ isValidInstance(m_bits)
    /\ Stored(other) \subseteq MaskBits /\ isValidInstance(other)
    /\ ReturnsFlagSet => (Stored(res.value.flags) \subseteq MaskBits /\ isValidInstance(res.value.flags))

\* a FlagSet of the enum with a gap was constructed from a value with bits
\* in the gap and above ALL, and kept the legal ones
C1_Witness ==
    /\ enum = "NetworkFlags"
    /\ res.op = "FlagSet"
    /\ { 2, 5 } \subseteq Bits(res.arg)
    /\ Stored(m_bits) = MaskBits

----------------------------------------------------------------------------
\* C2: fromUnderlying(r) never fails, fromUnderlying(r).toUnderlying() is
\* r & VALID_MASK, and feeding that value to fromUnderlying again gives the
\* same stored bits.
C2_FromUnderlyingMasks ==
    res.op = "fromUnderlying" =>
        /\ res.outcome = "value"
        /\ Bits(toUnderlying(m_bits)) = Bits(res.arg) \cap MaskBits
        /\ fromUnderlying(toUnderlying(m_bits)) = m_bits

\* fromUnderlying of a raw value with legal and illegal bits
C2_Witness ==
    /\ res.op = "fromUnderlying"
    /\ OutsideMask(res.arg)
    /\ Stored(m_bits) # { }

----------------------------------------------------------------------------
\* C3: fromEnum(v) succeeds with the stored bits of fromUnderlying(v) when v
\* has no bit outside VALID_MASK, and fails with VALUE_ERROR when it has one.
C3_FromEnumStrict ==
    res.op = "fromEnum" =>
        IF OutsideMask(res.arg)
        THEN ValueError
        ELSE /\ res.outcome = "value"
             /\ res.value.flags = fromUnderlying(res.arg)
             /\ Stored(res.value.flags) = Bits(res.arg)
             /\ m_bits = res.value.flags

\* fromEnum(16) with ALL = 7 was rejected
C3_Witness ==
    /\ enum = "Permissions"
    /\ res.op = "fromEnum"
    /\ res.arg = 16
    /\ ValueError

\* fromEnum of a legal multi-flag value succeeded
C3_WitnessAccepted ==
    /\ res.op = "fromEnum"
    /\ res.outcome = "value"
    /\ Cardinality(Stored(m_bits)) >= 2

----------------------------------------------------------------------------
\* C4: has, set, clear and toggle called with a candidate that has a bit
\* outside VALID_MASK (above ALL or in a gap of ALL) return an Error of kind
\* VALUE_ERROR and leave the stored bits as they were.
C4_OutsideMaskRejected ==
    [][ (res'.op \in SingleFlagOps /\ OutsideMask(res'.arg)) =>
            (ValueErrorNext /\ m_bits' = m_bits) ]_vars

\* set() of the gap value 4 of NetworkFlags was rejected on a non-empty set
C4_Witness ==
    /\ enum = "NetworkFlags"
    /\ res.op = "set"
    /\ res.arg = 4
    /\ ValueError
    /\ Stored(m_bits) # { }

----------------------------------------------------------------------------
\* C5: has, set, clear and toggle called with the zero candidate fail with a
\* value-kind error and leave the stored bits unchanged.
C5_ZeroRejected ==
    [][ (res'.op \in SingleFlagOps /\ res'.arg = 0) =>
            (ValueErrorNext /\ m_bits' = m_bits) ]_vars

----------------------------------------------------------------------------
\* C6: has, set, clear and toggle called with a candidate of two or more
\* bits, all inside VALID_MASK, fail with a value-kind error and leave the
\* stored bits unchanged.
C6_MultiBitRejected ==
    [][ (res'.op \in SingleFlagOps /\ MultiBit(res'.arg)) =>
            (ValueErrorNext /\ m_bits' = m_bits) ]_vars

----------------------------------------------------------------------------
\* C7: for a legal single flag f = 2^i and stored bits s: has(f) succeeds
\* with (s & f) != 0 and changes nothing; set(f), clear(f), toggle(f) succeed
\* and leave s | f, s & ~f, s ^ f; no other bit changes.
FlagBit(c) == CHOOSE i \in Bits(c) : TRUE

C7_SingleFlagEffect ==
    [][ (res'.op \in SingleFlagOps /\ SingleFlag(res'.arg)) =>
            /\ res'.outcome = "value"
            /\ res'.op = "has" =>
                   /\ res'.value.bool = (FlagBit(res'.arg) \in Stored(m_bits))
                   /\ m_bits' = m_bits
            /\ res'.op = "set" =>
                   Stored(m_bits') = Stored(m_bits) \cup { FlagBit(res'.arg) }
            /\ res'.op = "clear" =>
                   Stored(m_bits') = Stored(m_bits) \ { FlagBit(res'.arg) }
            /\ res'.op = "toggle" =>
                   Stored(m_bits') =
                       (Stored(m_bits) \cup { FlagBit(res'.arg) })
                           \ (Stored(m_bits) \cap { FlagBit(res'.arg) }) ]_vars

\* toggle(IPV6) on NetworkFlags switched bit 3 on next to other flags
C7_Witness ==
    /\ enum = "NetworkFlags"
    /\ res.op = "toggle"
    /\ res.arg = 8
    /\ res.outcome = "value"
    /\ { 0, 3 } \subseteq Stored(m_bits)

----------------------------------------------------------------------------
\* C8: every call of every FlagSet operation, for every state and argument,
\* ends by returning a value or an Error value; none ends in an exception.
C8_NothingThrown == res.outcome # "throw"

----------------------------------------------------------------------------
\* C9: has(c), for accepted and rejected candidates alike, and toUnderlying,
\* toEnum, isValid, hasAny, hasNone, count, forEach and iteration leave the
\* stored bits unchanged.
ConstOps ==
    { "has", "toUnderlying", "toEnum", "isValid", "hasAny", "hasNone", "count",
      "forEach", "operator bool", "range-for", "begin", "operator*", "operator++" }

C9_QueriesDoNotMutate ==
    [][ res'.op \in ConstOps => m_bits' = m_bits ]_vars

\* an iteration over a set of several flags has moved past its first flag
C9_Witness ==
    /\ res.op = "operator++"
    /\ it > 0
    /\ it < NUM_BITS
    /\ Cardinality(Stored(m_bits)) >= 2

----------------------------------------------------------------------------
\* C10: setAll, clearAll and toggleAll always succeed and leave exactly
\* VALID_MASK, 0 and s ^ VALID_MASK; toggling all twice restores s.
SymDiff(A, B) == (A \ B) \cup (B \ A)

C10_BulkOperations ==
    [][ /\ res'.op \in { "setAll", "clearAll", "toggleAll" } => res'.outcome = "value"
        /\ res'.op = "setAll" => Stored(m_bits') = MaskBits
        /\ res'.op = "clearAll" => Stored(m_bits') = { }
        /\ res'.op = "toggleAll" =>
               /\ Stored(m_bits') = SymDiff(Stored(m_bits), MaskBits)
               /\ bitset_xor(m_bits', bitset(VALID_MASK)) = m_bits ]_vars

\* toggleAll on NetworkFlags holding TCP left UDP, IPV6 and ENCRYPTED
C10_Witness ==
    /\ enum = "NetworkFlags"
    /\ res.op = "toggleAll"
    /\ Stored(m_bits) = { 1, 3, 4 }

----------------------------------------------------------------------------
\* C11: a|b, a&b, a^b and ~a are valid flag sets whose stored bits are the
\* bitwise or, and, xor of the operands' stored bits and (~a) & VALID_MASK.
C11_OperatorResults ==
    /\ (res.op = "operator|" /\ res.outcome = "value") =>
           Stored(res.value.flags) = Stored(m_bits) \cup Stored(other)
    /\ (res.op = "operator&" /\ res.outcome = "value") =>
           Stored(res.value.flags) = Stored(m_bits) \cap Stored(other)
    /\ (res.op = "operator^" /\ res.outcome = "value") =>
           Stored(res.value.flags) = SymDiff(Stored(m_bits), Stored(other))
    /\ (res.op = "operator~" /\ res.outcome = "value") =>
           Stored(res.value.flags) = MaskBits \ Stored(m_bits)
    /\ res.op \in { "operator|", "operator&", "operator^", "operator~" } =>
           /\ res.outcome = "value"
           /\ isValidInstance(res.value.flags)
           /\ DOMAIN res.value.flags = Positions

\* with ALL = 7, {READ, WRITE} ^ {WRITE, EXECUTE} is {READ, EXECUTE}
C11_Witness ==
    /\ enum = "Permissions"
    /\ res.op = "operator^"
    /\ Stored(m_bits) = { 0, 1 }
    /\ Stored(other) = { 1, 2 }
    /\ toUnderlying(res.value.flags) = 5

\* with ALL = 7, {READ, WRITE} & {WRITE, EXECUTE} is exactly WRITE
C11_WitnessAnd ==
    /\ enum = "Permissions"
    /\ res.op = "operator&"
    /\ Stored(m_bits) = { 0, 1 }
    /\ Stored(other) = { 1, 2 }
    /\ toUnderlying(res.value.flags) = 2

\* with ALL = 7, ~{READ} has the value 6
C11_WitnessNot ==
    /\ enum = "Permissions"
    /\ res.op = "operator~"
    /\ toUnderlying(m_bits) = 1
    /\ toUnderlying(res.value.flags) = 6

----------------------------------------------------------------------------
\* C12: for every flag set a, ~(~a) has the stored bits of a, and a & F has
\* the stored bits of a, F being the full set that holds exactly VALID_MASK.
FullSet == FlagSet(VALID_MASK)

C12_ComplementAndFullSet ==
    /\ operator_not(operator_not(m_bits)) = m_bits
    /\ operator_and(m_bits, FullSet) = m_bits
    /\ operator_not(operator_not(other)) = other
    /\ operator_and(other, FullSet) = other

\* the complement of {TCP, IPV6} of the enum with a gap was taken
C12_Witness ==
    /\ enum = "NetworkFlags"
    /\ res.op = "operator~"
    /\ Stored(m_bits) = { 0, 3 }
    /\ Stored(res.value.flags) = { 1, 4 }

----------------------------------------------------------------------------
\* C13: iteration from begin() to end() yields exactly the flags 2^i of the
\* stored bits i, each once, in strictly ascending bit position.
Ascending(list) ==
    \A j, k \in 1 .. Len(list) : j < k => list[j] < list[k]

ListIsStoredFlags(list, b) ==
    /\ Len(list) = Cardinality(Stored(b))
    /\ { list[k] : k \in 1 .. Len(list) } = { 2 ^ i : i \in Stored(b) }
    /\ Ascending(list)

C13_IterationYieldsStoredFlags ==
    res.op = "range-for" =>
        /\ res.outcome = "value"
        /\ ListIsStoredFlags(res.value.list, m_bits)

\* NetworkFlags after setAll(): TCP, UDP, IPV6, ENCRYPTED and not the gap 4
C13_Witness ==
    /\ enum = "NetworkFlags"
    /\ res.op = "range-for"
    /\ Stored(m_bits) = MaskBits
    /\ res.value.list = << 1, 2, 8, 16 >>

----------------------------------------------------------------------------
\* C14: the flags forEach hands to its callback are, element for element
\* and in the same order, the flags the iteration produces.
C14_ForEachEqualsIteration ==
    /\ res.op = "forEach" => res.value.list = iterate(m_bits)
    /\ res.op = "range-for" => res.value.list = forEach(m_bits)

\* forEach over {TCP, IPV6, ENCRYPTED}
C14_Witness ==
    /\ enum = "NetworkFlags"
    /\ res.op = "forEach"
    /\ res.value.list = << 1, 8, 16 >>

----------------------------------------------------------------------------
\* C15: count() = 0 iff hasNone() iff not hasAny() iff the bool conversion
\* is false, and count() is the number of elements the iteration produces.
C15_CountConsistency ==
    /\ (count(m_bits) = 0) = hasNone(m_bits)
    /\ hasNone(m_bits) = ~ hasAny(m_bits)
    /\ hasAny(m_bits) = operator_bool(m_bits)
    /\ count(m_bits) = Len(iterate(m_bits))
    /\ count(m_bits) = Cardinality(Stored(m_bits))
    /\ res.op = "count" => res.value.int = Len(iterate(m_bits))
    /\ res.op = "hasNone" => res.value.bool = (Len(iterate(m_bits)) = 0)
    /\ res.op = "hasAny" => res.value.bool = (Len(iterate(m_bits)) # 0)
    /\ res.op = "operator bool" => res.value.bool = (Len(iterate(m_bits)) # 0)

\* count() of the full NetworkFlags set returned 4
C15_Witness ==
    /\ enum = "NetworkFlags"
    /\ res.op = "count"
    /\ res.value.int = 4

\* The text a toStr() call on the Error e is documented to produce: the first
\* 255 characters of "<kind name>: <message>"
Prefix(text, n) == SubSeq(text, 1, IF Len(text) < n THEN Len(text) ELSE n)
Formatted(e) == Prefix(toStr(e.type) \o << ":", " " >> \o e.message, 255)

\* a thread whose last toStr() call has returned and is still the last one
Returned(t) == pc[t] = "idle" /\ strs[t] # << >>
LastCall(t) == Len(strs[t])

\* C16: the text toStr() returns is the first min(L, 255) characters of
\* "<kind name>: <message>", the message taken verbatim, "%s" and "%d" included.
C16_ToStrText ==
    Returned(MainThread) =>
        /\ ~ strs[MainThread][LastCall(MainThread)].null
        /\ TextOf(MainThread, LastCall(MainThread))
               = Formatted(errs[MainThread][LastCall(MainThread)])
        /\ Len(TextOf(MainThread, LastCall(MainThread))) <= 255

\* a message with conversion specifications has been formatted
C16_Witness ==
    /\ Returned(MainThread)
    /\ errs[MainThread][LastCall(MainThread)].message = WithConversions
    /\ TextOf(MainThread, LastCall(MainThread))
           = toStr(errs[MainThread][LastCall(MainThread)].type) \o << ":", " " >> \o WithConversions

\* a text longer than the buffer has been cut to 255 characters
C16_WitnessTruncated ==
    /\ Returned(MainThread)
    /\ Len(errs[MainThread][LastCall(MainThread)].message) = MaxMsgLen
    /\ Len(TextOf(MainThread, LastCall(MainThread))) = 255

\* the names the specification documents for the kinds
DocumentedName ==
    [ ARITHMETIC_ERROR      |-> "ArithmeticError",
      FLOATING_POINT_ERROR  |-> "FloatingPointError",
      OVERFLOW_ERROR        |-> "OverflowError",
      ZERO_DIVISION_ERROR   |-> "ZeroDivisionError",
      ASSERTION_ERROR       |-> "AssertionError",
      ATTRIBUTE_ERROR       |-> "AttributeError",
      INDEX_ERROR           |-> "IndexError",
      KEY_ERROR             |-> "KeyError",
      OS_ERROR              |-> "OSError",
      TIMEOUT_ERROR         |-> "TimeoutError",
      RUNTIME_ERROR         |-> "RuntimeError",
      NOT_IMPLEMENTED_ERROR |-> "NotImplementedError",
      SYNTAX_ERROR          |-> "SyntaxError",
      SYSTEM_ERROR          |-> "SystemError",
      TYPE_ERROR            |-> "TypeError",
      VALUE_ERROR           |-> "ValueError",
      GENERIC_ERROR         |-> "GenericError" ]

\* the characters of a documented name, one by one
Spelled(text, name) ==
    \E k \in DOMAIN DocumentedName :
        /\ DocumentedName[k] = name
        /\ text = toStr(k)

C18_ThreadsOwnBuffers ==
    /\ [](\A t, u \in Threads :
            t # u => \A k \in DOMAIN strs[t], j \in DOMAIN strs[u] :
                         /\ ~ strs[t][k].null
                         /\ strs[t][k].buffer # strs[u][j].buffer)
    /\ [](\A t \in Threads :
            Returned(t) => TextOf(t, LastCall(t)) = Formatted(errs[t][LastCall(t)]))
    /\ [][\A t, u \in Threads :
            (t # u /\ pc'[u] # pc[u]) =>
                \A k \in DOMAIN strs[t] : TextOf(t, k)' = TextOf(t, k)]_vars

\* thread 1 holds the text of its Error while thread 2, formatting another
\* Error, has written its buffer
C18_Witness ==
    /\ Returned(1)
    /\ pc[2] = "formatted"
    /\ errs[1][LastCall(1)] = Error(FirstError, "VALUE_ERROR")
    /\ errs[2][Len(errs[2])] = Error(SecondError, "INDEX_ERROR")
    /\ TextOf(1, LastCall(1)) = Formatted(Error(FirstError, "VALUE_ERROR"))
    /\ CStr(s_buffer[2]) = Formatted(Error(SecondError, "INDEX_ERROR"))

\* C19: on one thread two successive toStr() calls return the same buffer;
\* after the second call the text read through the first result is the second
\* call's text, and the first text is kept only in a copy made before.
C19_BufferReused ==
    \A t \in Threads :
        Len(strs[t]) = CallsPerScope =>
            /\ strs[t][1] = strs[t][2]
            /\ pc[t] = "idle" => TextOf(t, 1) = Formatted(errs[t][2])
            /\ saved[t][1].copied => saved[t][1].text = Formatted(errs[t][1])
            /\ (pc[t] = "idle" /\ errs[t][1] # errs[t][2])
                   => TextOf(t, 1) # Formatted(errs[t][1])

\* e1 and e2 of the test have been formatted in turn, the first text copied
\* out before the second call
C19_Witness ==
    /\ pc[MainThread] = "idle"
    /\ Len(strs[MainThread]) = CallsPerScope
    /\ errs[MainThread][1] = Error(FirstError, "VALUE_ERROR")
    /\ errs[MainThread][2] = Error(SecondError, "INDEX_ERROR")
    /\ saved[MainThread][1].copied
    /\ saved[MainThread][1].text # TextOf(MainThread, 1)
    /\ TextOf(MainThread, 1) = TextOf(MainThread, 2)

\* C20: unwrap returns the payload of a success and verify returns normally
\* on one; given an error both end the process, and neither ever returns.
C20_UnwrapVerifyAbort ==
    /\ [][(process = "running" /\ res'.op \in { "unwrap", "verify" }) =>
            IF result.has_value
            THEN /\ process' = "running"
                 /\ res'.outcome = "value"
                 /\ res'.value = (IF result.T = "int" THEN Num(result.value) ELSE Void)
            ELSE /\ process' = "aborted"
                 /\ res'.outcome = "abort"]_vars
    /\ []((res.op \in { "unwrap", "verify" } /\ res.outcome = "value") => result.has_value)
    /\ [](process = "aborted" => (~ result.has_value /\ res.outcome = "abort"))
    /\ [][process = "aborted" => vars' = vars]_vars

\* unwrap has been given an error and the process has ended
C20_Witness ==
    /\ process = "aborted"
    /\ res.op = "unwrap"
    /\ ~ result.has_value

\* verify has been given an error and the process has ended
C20_WitnessVerify ==
    /\ process = "aborted"
    /\ res.op = "verify"
    /\ result.T = "void"

\* unwrap has returned the payload of a success
C20_WitnessPayload ==
    /\ process = "running"
    /\ res.op = "unwrap"
    /\ result = expected("int", 123)
    /\ res.value = Num(123)

\* C21: a Result holds exactly one of a value and an Error; ok( v ) yields a
\* success holding v, ok() a success Status or a default-valued Result< T >,
\* and err( m, k ) a failure whose Error has the message m and the kind k, the
\* kind being GENERIC_ERROR when it is omitted.
C21_ResultHoldsOne ==
    /\ [](/\ result.has_value \in BOOLEAN
          /\ result.has_value => result.error = ErrorDefault
          /\ ~ result.has_value => result.value = 0)
    /\ [][\A v \in ResultValues :
            Ok(v) => (result'.has_value /\ result'.value = v /\ result'.T = "int")]_vars
    /\ [][OkStatus => (result'.has_value /\ result'.T = "void")]_vars
    /\ [][OkDefault => (result'.has_value /\ result'.value = 0 /\ result'.T = "int")]_vars
    /\ [][\A T \in ResultTypes, msg \in ResultMessages, typ \in ErrorType :
            Err(T, msg, typ) =>
                /\ ~ result'.has_value
                /\ result'.error.message = msg
                /\ result'.error.type = typ]_vars
    /\ [][\A T \in ResultTypes, msg \in ResultMessages :
            ErrMessageOnly(T, msg) =>
                /\ ~ result'.has_value
                /\ result'.error.message = msg
                /\ result'.error.type = "GENERIC_ERROR"]_vars

\* err( "division by zero", ZERO_DIVISION_ERROR ) has built a failed Result
C21_Witness ==
    /\ ~ result.has_value
    /\ result.error = Error(DivisionByZero, "ZERO_DIVISION_ERROR")
    /\ res.op = "err(msg, type)"

\* err( msg ) has built a failure of the kind GENERIC_ERROR
C21_WitnessDefaultKind ==
    /\ ~ result.has_value
    /\ result.error.type = "GENERIC_ERROR"
    /\ res.op = "err(msg)"

\* ok( 123 ) has built a success
C21_WitnessOk ==
    /\ result = expected("int", 123)
    /\ res.op = "ok(value)"

\* C22: a |= b, a &= b and a ^= b leave a with exactly the stored bits of
\* a | b, a & b and a ^ b, and leave b unchanged.
C22_CompoundAssignment ==
    [][/\ OperatorOrAssign  => (m_bits' = operator_or(m_bits, other)  /\ other' = other)
       /\ OperatorAndAssign => (m_bits' = operator_and(m_bits, other) /\ other' = other)
       /\ OperatorXorAssign => (m_bits' = operator_xor(m_bits, other) /\ other' = other)
       /\ res'.op \in { "operator|=", "operator&=", "operator^=" } =>
              /\ other' = other
              /\ res'.op = "operator|=" => Stored(m_bits') = Stored(m_bits) \cup Stored(other)
              /\ res'.op = "operator&=" => Stored(m_bits') = Stored(m_bits) \cap Stored(other)
              /\ res'.op = "operator^=" => Stored(m_bits') = SymDiff(Stored(m_bits), Stored(other))]_vars

\* a &= b has removed bits from a, with b holding bits a does not have
C22_Witness ==
    /\ res.op = "operator&="
    /\ Stored(m_bits) # { }
    /\ Stored(m_bits) # Stored(other)
    /\ Stored(m_bits) \subseteq Stored(other)

\* the index of the highest set bit of x plus one, 0 when x is 0
BitsNeeded(x) == IF x = 0 THEN 0 ELSE 1 + CHOOSE i \in Bits(x) : \A j \in Bits(x) : j <= i

\* C23: the width NUM_BITS of the stored bit vector is the number of bits
\* needed to represent ALL, whatever the width of the underlying type: 5 for
\* ALL = 27, 4 for the 8-bit enum with ALL = 15, 0 for ALL = 0.
C23_NumBits ==
    /\ NUM_BITS = BitsNeeded(ALL(enum))
    /\ DOMAIN m_bits = 0 .. (BitsNeeded(ALL(enum)) - 1)
    /\ enum = "NetworkFlags" => NUM_BITS = 5
    /\ enum = "FileFlags" => NUM_BITS = 4
    /\ enum = "EmptyFlags" => NUM_BITS = 0
    /\ (enum # "EmptyFlags") => NUM_BITS < UnderlyingBits(enum)

\* the 8-bit FileFlags set holds all its four flags in a vector of four bits
C23_Witness ==
    /\ enum = "FileFlags"
    /\ res.op = "count"
    /\ res.value = Num(4)
    /\ Cardinality(DOMAIN m_bits) = 4

\* the 16-bit NetworkFlags set, with its gap, lives in a vector of five bits
C23_WitnessGap ==
    /\ enum = "NetworkFlags"
    /\ res.op = "setAll"
    /\ Cardinality(DOMAIN m_bits) = 5
    /\ Stored(m_bits) = { 0, 1, 3, 4 }

\* C24: bitPosition returns i for every value whose only set bit is bit i, the
\* sentinel NUM_BITS for the value 0, and at most NUM_BITS for every value
\* inside VALID_MASK; the single-flag operations act on the position it gives.
C24_BitPosition ==
    /\ \A value \in Raw :
          /\ Cardinality(Bits(value)) = 1 => Bits(value) = { bitPosition(value) }
          /\ value = 0 => bitPosition(value) = NUM_BITS
          /\ ~ OutsideMask(value) => bitPosition(value) <= NUM_BITS
          /\ (~ OutsideMask(value) /\ value # 0) => bitPosition(value) < NUM_BITS
    /\ (res.op \in SingleFlagOps /\ res.outcome # "error") =>
          (res.outcome = "throw" <=> bitPosition(res.arg) = NUM_BITS)

\* has( NONE ) resolved the value 0 to the sentinel position
C24_Witness ==
    /\ res.op = "has"
    /\ res.arg = 0
    /\ res.outcome = "throw"
    /\ bitPosition(0) = NUM_BITS

\* set( ENCRYPTED ) resolved the value 16 to position 4
C24_WitnessSingleBit ==
    /\ enum = "NetworkFlags"
    /\ res.op = "set"
    /\ res.arg = 16
    /\ bitPosition(16) = 4
    /\ m_bits[4]

\* the calls that project the stored bits to an integer or an enum value
Projections == { "toUnderlying", "toEnum", "operator Underlying", "operator Enum" }

\* C25: toUnderlying(), toEnum() and the explicit conversions all project the
\* stored bits, and fromUnderlying( s.toUnderlying() ) and FlagSet( s.toEnum() )
\* have exactly the stored bits of s.
C25_ConversionsRoundTrip ==
    /\ Bits(toUnderlying(m_bits)) = Stored(m_bits)
    /\ Bits(toEnum(m_bits)) = Stored(m_bits)
    /\ fromUnderlying(toUnderlying(m_bits)) = m_bits
    /\ FlagSet(toEnum(m_bits)) = m_bits
    /\ res.op \in Projections =>
          /\ res.outcome = "value"
          /\ Bits(res.value.int) = Stored(m_bits)

\* the explicit conversion to the enum projected TCP | IPV6 | ENCRYPTED
C25_Witness ==
    /\ enum = "NetworkFlags"
    /\ res.op = "operator Enum"
    /\ res.value = Num(25)
    /\ Stored(m_bits) = { 0, 3, 4 }
    /\ Stored(FlagSet(res.value.int)) = { 0, 3, 4 }

\* C26: iteration terminates: the index of the iterator strictly increases
\* with every increment and never exceeds NUM_BITS, so that a loop started at
\* begin() reaches end() after at most NUM_BITS increments, also when the set
\* is changed between the steps.
C26_IterationTerminates ==
    /\ [](it # NoIterator => (0 <= it /\ it <= NUM_BITS))
    /\ [][res'.op = "operator++" => (it < it' /\ it' <= NUM_BITS)]_vars
    /\ [][(it # NoIterator /\ it' # it /\ res'.op # "begin") => it' > it]_vars
    /\ (it # NoIterator) ~> (it = NUM_BITS)

\* the loop has reached end() although the bit it stood on was cleared and
\* another bit was set in between
C26_Witness ==
    /\ it = NUM_BITS
    /\ res.op = "operator++"
    /\ enum = "NetworkFlags"
    /\ Stored(m_bits) = { 0, 4 }

\* the characters cmn::ss::snprintf left before the terminator it reports
Output == [ k \in 1 .. ss.ret |-> ss.buffer[k - 1] ]

\* C27: cmn::ss::snprintf never writes outside buffer[0 .. size-1]: for
\* size >= 1 it returns n <= size-1, stores the terminator at buffer[n] and
\* nothing beyond it; with a null buffer or size 0 it returns 0 and writes
\* nothing.
C27_WritesInsideBuffer ==
    ss.called =>
        IF ss.null \/ ss.size = 0
        THEN /\ ss.ret = 0
             /\ ss.buffer = Buffer(IF ss.null THEN 0 ELSE ss.size)
        ELSE /\ DOMAIN ss.buffer = 0 .. (ss.size - 1)
             /\ 0 <= ss.ret /\ ss.ret <= ss.size - 1
             /\ ss.buffer[ss.ret] = Nul
             /\ \A i \in 0 .. (ss.ret - 1) : ss.buffer[i] \in { "a", "%", "s", "x" }
             /\ \A i \in (ss.ret + 1) .. (ss.size - 1) : ss.buffer[i] = Buffer(ss.size)[i]

\* an output that did not fit was cut at the last character of the buffer
C27_Witness ==
    /\ ss.called
    /\ ~ ss.null
    /\ ss.size = 3
    /\ ss.ret = 2
    /\ ss.format = << "a", "%", "s", "a" >>
    /\ ss.args = << Str(<< "x" >>) >>
    /\ ss.buffer[2] = Nul

\* a call with a null buffer returned 0
C27_WitnessNull ==
    /\ ss.called
    /\ ss.null
    /\ ss.size > 0
    /\ ss.ret = 0

\* the format with its k-th "%s" replaced by the k-th argument while arguments
\* remain, a null argument replaced by nothing
RECURSIVE Substituted(_, _)
Substituted(format, args) ==
    IF format = << >> THEN << >>
    ELSE IF Len(format) >= 2 /\ format[1] = "%" /\ format[2] = "s" /\ args # << >>
    THEN (IF Head(args).null THEN << >> ELSE Head(args).text)
             \o Substituted(SubSeq(format, 3, Len(format)), Tail(args))
    ELSE << Head(format) >> \o Substituted(Tail(format), args)

\* C28: the output of cmn::ss::snprintf is the format with the k-th "%s"
\* replaced by the k-th argument while arguments remain, every other
\* character copied as it is; when that does not fit, its first size-1
\* characters.
C28_SubstitutesArguments ==
    (ss.called /\ ~ ss.null /\ ss.size >= 1) =>
        /\ Output = Prefix(Substituted(ss.format, ss.args), ss.size - 1)
        /\ Len(Substituted(ss.format, ss.args)) <= ss.size - 1
               => Output = Substituted(ss.format, ss.args)

\* "%s%s" with one argument: the second "%s" was copied as it is
C28_Witness ==
    /\ ss.called
    /\ ~ ss.null
    /\ ss.format = << "%", "s", "%", "s" >>
    /\ ss.args = << Str(<< "x" >>) >>
    /\ Output = << "x", "%", "s" >>

\* a null first argument gave no characters and the second argument its text
C28_WitnessNullArgument ==
    /\ ss.called
    /\ ~ ss.null
    /\ ss.format = << "%", "s", "%", "s" >>
    /\ ss.args = << NullPtr, Str(<< "x" >>) >>
    /\ Output = << "x" >>

\* "%%" and "%a" were copied as they are, the argument was not used
C28_WitnessOtherDirective ==
    /\ ss.called
    /\ ~ ss.null
    /\ ss.format = << "%", "%", "%", "a" >>
    /\ ss.args = << Str(<< "x" >>) >>
    /\ Output = << "%", "%", "%", "a" >>

\* C29: for every stored bit i, bit 31 and above included, the value forEach
\* and the iterator produce for it is exactly 2^i in the underlying type, a
\* single flag inside VALID_MASK.
C29_FlagIsPowerOfTwo ==
    /\ wide.op = "forEach" =>
          /\ Len(wide.produced) = Cardinality(Stored(wide.m_bits))
          /\ { wide.produced[k] : k \in DOMAIN wide.produced }
                 = { { i } : i \in Stored(wide.m_bits) }
    /\ wide.op = "operator*" => wide.produced = << { wide.it } >>
    /\ \A k \in DOMAIN wide.produced :
          /\ Cardinality(wide.produced[k]) = 1
          /\ wide.produced[k] \subseteq WideALL(wide.enum)

====
